---- MODULE Spec2Model ----
(***************************************************************************)
(* Model of src/index.js: the planner loop, the chat handler, the plan     *)
(* executor, the action dispatcher and the command gate of the bot.        *)
(*                                                                         *)
(* JavaScript runs one callback at a time.  A callback runs until it       *)
(* awaits something the outside world completes (the model service, the    *)
(* pathfinder, a timer).  runq holds the invocations whose continuation    *)
(* is ready; while it is not empty only its head runs, and no timer,       *)
(* chat event or collaborator event is delivered.                          *)
(***************************************************************************)
EXTENDS Integers, Sequences, FiniteSets, TLC

(*-------------------------- bounds of the model --------------------------*)
\* Invocations (planner ticks, chat handlers) that may be in flight at once.
MaxTasks == 2
\* Longest plan.steps / actions array the model service returns.
MaxPlanLen == 2

(*--------------------------- program constants ---------------------------*)
\* the planner's instruction to the model: "Limit steps to 8"
PlanCap == 8

\* executePlan: if (dist > 10) skip
MaxDist == 10

\* const ALLOW_COMMANDS = process.env.ALLOW_COMMANDS === '1' || true
\* EnvAllowCommands is the environment variable; either value gives true.
EnvAllowCommands == "0"
ALLOW_COMMANDS == (EnvAllowCommands = "1") \/ TRUE

\* username: process.env.MC_USERNAME || 'AI'
BotUsername == "AI"
\* the value of process.env.MC_OWNER || null when it is not set
Null == "null"

(*------------------------------ the world --------------------------------*)
\* Block positions <<x, y, z>>.  A-B and B-C are 8 apart, A-C is 11.3 apart.
PA == <<0, 0, 0>>
PB == <<8, 0, 0>>
PC == <<8, 0, 8>>
PD == <<0, 0, 8>>
World == {PA, PB, PC, PD}
NoGoal == <<>>

Sq(n) == n * n
\* Vec3.distanceTo, squared: the Euclidean distance between two points
Dist2(p, q) == Sq(p[1] - q[1]) + Sq(p[2] - q[2]) + Sq(p[3] - q[3])

(*--------------------------- steps and actions ----------------------------*)
\* A step / action is { name, params, rationale }.  params is a record that
\* has a key exactly when the JSON object has it; x, y, z hold numbers when
\* present.  A command payload is the text of the command: whether it starts
\* with '/', and its ';'-separated segments, each either of the form
\* name(k=v,...) (call = TRUE) or any other text (call = FALSE).
NoParams == <<>>
XYZ(p) == [x |-> p[1], y |-> p[2], z |-> p[3]]
Step(n, p, r) == [name |-> n, params |-> p, rationale |-> r]
NoStep == Step("", NoParams, FALSE)

Seg(c, n, a) == [call |-> c, name |-> n, args |-> a]
Text(sl, segs) == [slash |-> sl, segs |-> segs]
SayHi == Text(FALSE, <<Seg(FALSE, "say hi", <<>>)>>)
GotoCText == Text(TRUE, <<Seg(TRUE, "goto", << <<"x", "8">>, <<"y", "0">>, <<"z", "8">> >>)>>)
\* "list", and "command(cmd=list)": a payload that names a command action
ListText == Text(FALSE, <<Seg(FALSE, "list", <<>>)>>)
NestedCmdText == Text(FALSE, <<Seg(TRUE, "command", << <<"cmd", "list">> >>)>>)
\* the text values of the model that are command payloads, as texts
PayloadOf == [s \in {"list"} |-> ListText]

\* String.prototype.toLowerCase on the names of the model
ToLower(n) == IF n = "GoTo" THEN "goto" ELSE n

\* Number(v) for the numerals of the model; isNaN(Number(v)) for other text
NumberOf == [s \in {"0", "8"} |-> IF s = "0" THEN 0 ELSE 8]
IsNumeric(s) == s \in DOMAIN NumberOf

HasNumber(p, k) == k \in DOMAIN p
HasCoords(p) == HasNumber(p, "x") /\ HasNumber(p, "y") /\ HasNumber(p, "z")
Target(p) == <<p.x, p.y, p.z>>

GotoB == Step("GoTo", XYZ(PB), TRUE)
GotoC == Step("goto", XYZ(PC), FALSE)
StatusStep == Step("status", NoParams, FALSE)
FlyB == Step("flyaway", XYZ(PB), FALSE)
\* a primitive whose params lack y and z
DigNoYZ == Step("dig", [x |-> 8], FALSE)
CmdSay == Step("command", [command |-> SayHi], FALSE)
CmdGoto == Step("runcommand", [cmd |-> GotoCText], FALSE)

\* steps the model service may put into plan.steps
PlanSteps == {GotoB, GotoC, StatusStep, FlyB, DigNoYZ}
\* actions the model service may put into actions
ReplyActions == {GotoC, CmdSay, CmdGoto}

RECURSIVE SeqsUpTo(_, _)
SeqsUpTo(S, n) ==
  IF n = 0 THEN {<<>>}
  ELSE LET shorter == SeqsUpTo(S, n - 1)
       IN  shorter \cup {Append(q, s) : q \in {r \in shorter : Len(r) = n - 1}, s \in S}

\* what parsePlanFromReply returns for the replies of the model: null (no
\* reply, no JSON, wrong schema) is <<>> here, as plannerTick treats null and
\* an empty steps array alike
PlanReplies == SeqsUpTo(PlanSteps, MaxPlanLen)
ActionReplies == SeqsUpTo(ReplyActions, MaxPlanLen)

(*----------------------------- chat messages ------------------------------*)
\* A chat message, trimmed: its first word, the rest of a directive, the
\* three integers of "<primitive> x y z", the text after "command ".
NoText == Text(FALSE, <<>>)
Msg(v, a, c, t) == [verb |-> v, arg |-> a, xyz |-> c, text |-> t]
Messages ==
  { Msg("setop", "on", <<>>, NoText), Msg("setop", "off", <<>>, NoText),
    Msg("enablecommands", "", <<>>, NoText), Msg("disablecommands", "", <<>>, NoText),
    Msg("start", "", <<>>, NoText), Msg("stop", "", <<>>, NoText),
    Msg("status", "", <<>>, NoText),
    Msg("goto", "", PC, NoText), Msg("dig", "", PB, NoText),
    Msg("command", "", <<>>, SayHi), Msg("command", "", <<>>, GotoCText),
    Msg("command", "", <<>>, NestedCmdText),
    Msg("hello", "", <<>>, NoText) }
Users == {"owner", "alice", BotUsername}

\* the environment of a deployment without an owner: every message, from a
\* player or echoed from the bot itself
Players == {"alice", BotUsername}
\* the environment in which the owner's directives are studied: any sender,
\* short replies of the model
OwnerPlanReplies == {<<>>, <<GotoB>>}
OwnerActionReplies == {<<>>, <<CmdSay>>}

(*------------------------------- reply text -------------------------------*)
\* The text of a reply is a sequence of pieces [k, n]: the characters k,
\* n times over.  The pieces are the markers the parsers look for, JSON keys
\* and literals, the calls of a directive line, letters and white space.
Tok(k, n) == [k |-> k, n |-> n]
T(k) == Tok(k, 1)
\* the three backquotes that open and close a fenced block
Fence == "~~~"
Marker == "//"
Space == " "
Trunc == "?"
IsSpace(tok) == tok.k = Space

\* JSON array literals of the model and the arrays JSON.parse makes of them
ArrayOf ==
  [k \in {"[]", "[B]", "[C]"} |->
     IF k = "[]" THEN <<>> ELSE IF k = "[B]" THEN <<GotoB>> ELSE <<GotoC>>]
\* the literal a JSON key is found by, and the key
KeyTok(key) == "\"" \o key \o "\":"
Keys == {"plan", "steps", "actions"}
KeyOf == [k \in {KeyTok(key) : key \in Keys} |-> CHOOSE key \in Keys : KeyTok(key) = k]

\* values JSON.parse returns; a key an object lacks reads as undefined
JUndefined == [ty |-> "undefined", arr |-> <<>>, obj |-> <<>>]
JNum == [ty |-> "num", arr |-> <<>>, obj |-> <<>>]
JArr(items) == [ty |-> "arr", arr |-> items, obj |-> <<>>]
JObj(f) == [ty |-> "obj", arr |-> <<>>, obj |-> f]
NoMembers == [key \in Keys |-> JUndefined]
JFail == [ok |-> FALSE, val |-> JUndefined, next |-> 0]

First(S) == IF S = {} THEN 0 ELSE CHOOSE i \in S : \A j \in S : i <= j
Last(S) == IF S = {} THEN 0 ELSE CHOOSE i \in S : \A j \in S : j <= i

\* String.prototype.trim
Trim(text) ==
  LET solid == {i \in DOMAIN text : ~IsSpace(text[i])}
  IN  IF solid = {} THEN <<>> ELSE SubSeq(text, First(solid), Last(solid))

\* JSON.parse, for the JSON grammar over the pieces: a value is an object
\* { key value ... }, an array literal or a number
RECURSIVE JSONvalue(_, _)
RECURSIVE JSONmembers(_, _, _)
JSONvalue(toks, i) ==
  IF i > Len(toks) THEN JFail
  ELSE IF toks[i].k = "{" THEN JSONmembers(toks, i + 1, NoMembers)
  ELSE IF toks[i].k \in DOMAIN ArrayOf
  THEN [ok |-> TRUE, val |-> JArr(ArrayOf[toks[i].k]), next |-> i + 1]
  ELSE IF toks[i].k = "1" THEN [ok |-> TRUE, val |-> JNum, next |-> i + 1]
  ELSE JFail
JSONmembers(toks, i, f) ==
  IF i > Len(toks) THEN JFail
  ELSE IF toks[i].k = "}" THEN [ok |-> TRUE, val |-> JObj(f), next |-> i + 1]
  ELSE IF toks[i].k \in DOMAIN KeyOf
  THEN LET v == JSONvalue(toks, i + 1)
       IN  IF v.ok
           THEN JSONmembers(toks, v.next, [f EXCEPT ![KeyOf[toks[i].k]] = v.val])
           ELSE JFail
  ELSE JFail
\* ok = FALSE: JSON.parse throws a SyntaxError
JSONparse(text) ==
  LET toks == SelectSeq(text, LAMBDA tok : ~IsSpace(tok))
      r == JSONvalue(toks, 1)
  IN  [ok |-> r.ok /\ r.next = Len(toks) + 1, val |-> r.val]

\* what a JSON strategy returns: raised = an exception leaves it; found =
\* FALSE is null; items is the array under the expected key
NoResult == [raised |-> FALSE, found |-> FALSE, items |-> <<>>]

\* Caught with the try ... catch left out: the exception leaves the block
Uncaught(thrown) == thrown
\* try { ... } catch {}: an exception of the block never leaves it
Caught(thrown) == FALSE

\* obj && obj.plan && Array.isArray(obj.plan.steps), and
\* obj && Array.isArray(obj.actions)
HasSchema(val, key) ==
  IF val.ty # "obj" THEN FALSE
  ELSE IF key = "plan"
  THEN val.obj["plan"].ty = "obj" /\ val.obj["plan"].obj["steps"].ty = "arr"
  ELSE val.obj["actions"].ty = "arr"
ItemsOf(val, key) ==
  IF key = "plan" THEN val.obj["plan"].obj["steps"].arr ELSE val.obj["actions"].arr

\* try { const obj = JSON.parse(jsonText); if (schema) return ... } catch {}
tryJson(jsonText, key) ==
  LET p == JSONparse(jsonText)
      valid == p.ok /\ HasSchema(p.val, key)
  IN  [raised |-> Caught(~p.ok), found |-> valid,
       items |-> IF valid THEN ItemsOf(p.val, key) ELSE <<>>]

\* the fenced strategy: the text between the first opening fence of a json
\* block and the next fence
fencedJson(text, key) ==
  LET codeFenceStart ==
        First({i \in DOMAIN text :
                 text[i].k = Fence /\ i < Len(text) /\ text[i + 1].k = "json"})
      codeFenceEnd ==
        First({i \in DOMAIN text : i > codeFenceStart + 1 /\ text[i].k = Fence})
  IN  IF codeFenceStart # 0 /\ codeFenceEnd # 0
      THEN tryJson(Trim(SubSeq(text, codeFenceStart + 2, codeFenceEnd - 1)), key)
      ELSE NoResult

\* a piece that holds an opening brace: the brace itself, or an array
\* literal with an object in it
HasBrace(tok) == tok.k = "{" \/ (tok.k \in DOMAIN ArrayOf /\ ArrayOf[tok.k] # <<>>)

\* the scan for the closing brace: depth++ at '{', depth-- at '}', stop at 0
RECURSIVE closingBrace(_, _, _)
closingBrace(text, i, depth) ==
  IF i > Len(text) THEN 0
  ELSE IF text[i].k = "{" THEN closingBrace(text, i + 1, depth + 1)
  ELSE IF text[i].k = "}"
  THEN IF depth - 1 = 0 THEN i ELSE closingBrace(text, i + 1, depth - 1)
  ELSE closingBrace(text, i + 1, depth)

\* the inline strategy: from the last '{' before the first occurrence of the
\* key (or the first one after it) to its matching '}'.  A brace found inside
\* an array literal opens an object of the array, which parses and lacks the
\* key.
inlineJson(text, key) ==
  LET keyIdx == First({i \in DOMAIN text : text[i].k = KeyTok(key)})
      before == Last({i \in DOMAIN text : i < keyIdx /\ HasBrace(text[i])})
      start == IF before # 0 THEN before
               ELSE First({i \in DOMAIN text : i > keyIdx /\ HasBrace(text[i])})
      close == closingBrace(text, start, 0)
  IN  IF keyIdx = 0 \/ start = 0 THEN NoResult
      ELSE IF text[start].k # "{" THEN NoResult
      ELSE IF close = 0 THEN NoResult
      ELSE tryJson(SubSeq(text, start, close), key)

parseJsonFromReply(text, key) ==
  IF text = <<>> THEN NoResult
  ELSE LET fenced == fencedJson(text, key)
       IN  IF fenced.raised \/ fenced.found THEN fenced ELSE inlineJson(text, key)

\* function parsePlanFromReply(text)
parsePlanFromReply(text) == parseJsonFromReply(text, "plan")
\* function parseJsonActionsFromReply(text)
parseJsonActionsFromReply(text) == parseJsonFromReply(text, "actions")

\* the calls name(k=v,...) of the model, as the regular expression of
\* parseCommandLineFromReply takes them apart
CallOf ==
  [k \in {"goto(x=8,y=0,z=8)", "goto(8,0,8)"} |->
     IF k = "goto(x=8,y=0,z=8)"
     THEN Seg(TRUE, "goto", << <<"x", "8">>, <<"y", "0">>, <<"z", "8">> >>)
     ELSE Seg(TRUE, "goto", << <<"8">>, <<"0">>, <<"8">> >>)]

\* the characters of a text
RECURSIVE Rep(_, _)
Rep(k, n) == IF n = 0 THEN "" ELSE k \o Rep(k, n - 1)
RECURSIVE Flat(_)
Flat(text) == IF text = <<>> THEN "" ELSE Rep(text[1].k, text[1].n) \o Flat(Tail(text))

\* String.prototype.split(';')
RECURSIVE Split(_)
Split(line) ==
  LET semi == First({i \in DOMAIN line : line[i].k = ";"})
  IN  IF semi = 0 THEN <<line>>
      ELSE <<SubSeq(line, 1, semi - 1)>> \o Split(SubSeq(line, semi + 1, Len(line)))

\* one segment of the line: a call, or any other text, which becomes a name
SegOf(cmd) ==
  IF Len(cmd) = 1 /\ cmd[1].k \in DOMAIN CallOf THEN CallOf[cmd[1].k]
  ELSE Seg(FALSE, Flat(Trim(cmd)), <<>>)

\* parseCommandLineFromReply up to its split: the segments of the text after
\* the first "//", through to the end of the text
directiveLine(text) ==
  LET sep == First({i \in DOMAIN text : text[i].k = Marker})
      line == Trim(SubSeq(text, sep + 1, Len(text)))
  IN  IF text = <<>> \/ sep = 0 \/ line = <<>> THEN <<>>
      ELSE LET parts == Split(line)
           IN  [i \in DOMAIN parts |-> SegOf(parts[i])]

\* the params blobs of "Action: <name> Params: {...}" texts, as JSON.parse
\* reads them
BlobOf == [k \in {"\"x\":8,\"y\":0,\"z\":0"} |-> XYZ(PB)]

\* function extractActionsLoose(text, username), its first pattern: the name
\* after "Action:" and the braces after "Params:".  No caller exists.
extractActionsLoose(text) ==
  LET a == First({i \in DOMAIN text : text[i].k = "Action:"})
      q == First({i \in DOMAIN text : i > a + 2 /\ text[i].k = "Params:"})
      open == First({i \in DOMAIN text : i > q /\ text[i].k = "{"})
      close == First({i \in DOMAIN text : i > open /\ text[i].k = "}"})
  IN  IF text = <<>> \/ a = 0 \/ q = 0 \/ open = 0 \/ close # open + 2 THEN <<>>
      ELSE IF text[open + 1].k \notin DOMAIN BlobOf THEN <<>>
      ELSE <<Step(ToLower(text[a + 2].k), BlobOf[text[open + 1].k], FALSE)>>

(*---------------------------- reply sanitizer -----------------------------*)
\* if (s.length > 240) s = s.slice(0, 237) + '...'
ChatLimit == 240
ChatKeep == 237
\* if (s.startsWith('"Alright, let')) return ''
Preamble == "\"Alright, let"

\* the number of characters of a piece: an array literal stands for its JSON
\* text, any other piece is its characters
ArrayWidth == [k \in DOMAIN ArrayOf |-> IF k = "[]" THEN 2 ELSE IF k = "[B]" THEN 63 ELSE 46]
Width(k) == IF k \in DOMAIN ArrayOf THEN ArrayWidth[k] ELSE Len(k)
RECURSIVE Length(_)
Length(text) ==
  IF text = <<>> THEN 0 ELSE text[1].n * Width(text[1].k) + Length(Tail(text))

\* String.prototype.slice(0, m); a piece of several characters that is cut
\* leaves its first characters, written as that many Trunc
RECURSIVE Take(_, _)
Take(text, m) ==
  IF m = 0 \/ text = <<>> THEN <<>>
  ELSE LET k == text[1].k
           w == Width(k)
           whole == m \div w
       IN  IF text[1].n * w <= m
           THEN <<text[1]>> \o Take(Tail(text), m - text[1].n * w)
           ELSE (IF whole > 0 THEN <<Tok(k, whole)>> ELSE <<>>)
                  \o (IF m % w > 0 THEN <<Tok(Trunc, m % w)>> ELSE <<>>)

\* replace(/```[\s\S]*?```/g, ''): each fence up to the next fence
RECURSIVE stripFences(_)
stripFences(text) ==
  LET open == First({i \in DOMAIN text : text[i].k = Fence})
      close == First({i \in DOMAIN text : i > open /\ text[i].k = Fence})
  IN  IF open = 0 \/ close = 0 THEN text
      ELSE SubSeq(text, 1, open - 1) \o stripFences(SubSeq(text, close + 1, Len(text)))

\* replace(/\{[\s\S]*\}/g, ''): from the first '{' to the last '}'; of an
\* array literal that holds the brace, the bracket outside it stays
stripBraces(text) ==
  LET closes(tok) == tok.k = "}" \/ (tok.k \in DOMAIN ArrayOf /\ ArrayOf[tok.k] # <<>>)
      open == First({i \in DOMAIN text : HasBrace(text[i])})
      close == Last({i \in DOMAIN text : closes(text[i])})
      pre == IF text[open].k = "{" THEN <<>> ELSE <<T("[")>>
      post == IF text[close].k = "}" THEN <<>> ELSE <<T("]")>>
  IN  IF open = 0 \/ close = 0 \/ close < open THEN text
      ELSE SubSeq(text, 1, open - 1) \o pre \o post \o SubSeq(text, close + 1, Len(text))

\* replace(/\s+/g, ' ')
RECURSIVE collapse(_)
collapse(text) ==
  IF text = <<>> THEN <<>>
  ELSE IF IsSpace(text[1])
  THEN LET solid == First({i \in DOMAIN text : ~IsSpace(text[i])})
       IN  <<T(Space)>> \o (IF solid = 0 THEN <<>>
                            ELSE collapse(SubSeq(text, solid, Len(text))))
  ELSE <<text[1]>> \o collapse(Tail(text))

\* the text before the length limit is applied: '' for the known preamble
cleaned(reply) ==
  LET s == Trim(collapse(stripBraces(stripFences(reply))))
  IN  IF s # <<>> /\ s[1].k = Preamble THEN <<>> ELSE s

\* truncate that keeps ChatLimit characters before the marker
truncateLate(s) ==
  IF Length(s) > ChatLimit THEN Take(s, ChatLimit) \o <<Tok(".", 3)>> ELSE s
\* if (s.length > 240) s = s.slice(0, 237) + '...'
truncate(s) ==
  IF Length(s) > ChatLimit THEN Take(s, ChatKeep) \o <<Tok(".", 3)>> ELSE s

\* function sanitizeLLMReplyForChat(reply)
sanitizeLLMReplyForChat(reply) ==
  IF reply = <<>> THEN <<>> ELSE truncate(cleaned(reply))

(*------------------------------ the replies -------------------------------*)
\* the JSON texts of a plan and of an actions object, whole and cut short
JsonOf(key, arr) ==
  IF key = "plan"
  THEN <<T("{"), T(KeyTok("plan")), T("{"), T(KeyTok("steps")), T(arr), T("}"), T("}")>>
  ELSE <<T("{"), T(KeyTok("actions")), T(arr), T("}")>>
Cut(json) == SubSeq(json, 1, Len(json) - 1)
Fenced(json) == <<T(Fence), T("json"), T(Space)>> \o json \o <<T(Space), T(Fence)>>
DirectiveText == <<T(Marker), T("goto(x=8,y=0,z=8)")>>
\* a reply that is a server command
SlashText == <<T("/op alice")>>
\* String.prototype.startsWith for one character
StartsWith(text, c) == text # <<>> /\ SubSeq(text[1].k, 1, 1) = c
\* the same call with its numbers bare
PositionalText == <<T(Marker), T("goto(8,0,8)")>>
LooseText ==
  <<T("Action:"), T(Space), T("goto"), T(Space), T("Params:"), T(Space),
    T("{"), T("\"x\":8,\"y\":0,\"z\":0"), T("}")>>

\* what a reply may hold in a fenced block ...
FencedParts(key) ==
  { <<>>,
    Fenced(JsonOf(key, "[B]")),
    Fenced(JsonOf(key, "[]")),
    Fenced(Cut(JsonOf(key, "[B]"))),
    Fenced(<<T("[B]")>>),
    <<T(Fence), T("json")>> \o JsonOf(key, "[B]"),
    <<T(Fence)>> \o JsonOf(key, "[B]") \o <<T(Fence)>> }
\* ... inline ...
InlineParts(key) ==
  { <<>>,
    <<Tok("a", 2), T(Space)>> \o JsonOf(key, "[C]"),
    JsonOf(key, "[]"),
    Cut(JsonOf(key, "[C]")),
    <<T("{"), T(KeyTok(key)), T("1"), T("}")>>,
    <<T("{"), T(KeyTok("steps")), T("{"), T("}"), T(KeyTok(key)), T("[C]"), T("}")>>,
    <<T("}"), T("{"), T(KeyTok(key))>>,
    <<T("{"), T("{"), T("{")>> \o JsonOf(key, "[C]") \o <<T("}"), T("}")>> }
\* ... and after them
Tails ==
  { <<>>, DirectiveText, PositionalText, LooseText, SlashText,
    <<T(Marker), T(Space)>>,
    <<Tok("a", 500)>>, <<Tok("a", ChatLimit)>>, <<Tok("a", ChatLimit + 1)>>,
    <<Tok("a", 120), Tok(Space, 3), Tok("a", 119)>>,
    <<T(Preamble), Tok("a", 300)>> }
Texts(key) ==
  {f \o i \o tl : f \in FencedParts(key), i \in InlineParts(key),
                    tl \in {<<>>, <<T(Space)>> \o DirectiveText}}
    \cup {f \o <<T(Space)>> \o tl : f \in {<<>>, Fenced(JsonOf(key, "[B]"))}, tl \in Tails}
PlanTexts == Texts("plan")
ActionTexts == Texts("actions")


VARIABLES
  spawned,        \* the 'spawn' event has been handled
  OWNER_USERNAME, \* const OWNER_USERNAME = process.env.MC_OWNER || null
  running,        \* let running
  busy,           \* let busy
  currentTask,    \* let currentTask
  loopTimer,      \* let loopTimer: TRUE while the interval timer is set
  botIsOp,        \* let botIsOp
  pos,            \* bot.entity.position
  goal,           \* the pathfinder's current goal
  listeners,      \* gotoNear calls whose goal_reached/cannotFind listeners are registered
  tasks,          \* the invocations in flight: planner ticks and chat handlers
  runq,           \* invocations whose continuation is ready to run
  directed,       \* the trusted principal's last directive of each family
  ev              \* what the last step did

vars == <<spawned, OWNER_USERNAME, running, busy, currentTask, loopTimer, botIsOp,
          pos, goal, listeners, tasks, runq, directed, ev>>

Tasks == 1..MaxTasks

\* want is the goal an invocation that waits in gotoNear has set
NoTask == [kind |-> "none", pc |-> "idle", frames |-> <<>>, startPos |-> PA,
           want |-> NoGoal]

NoEv == [op |-> "none", t |-> 0, src |-> "", user |-> "", step |-> NoStep,
         note |-> "", result |-> "", fwd |-> FALSE, refused |-> FALSE,
         notice |-> FALSE, text |-> <<>>, chat |-> <<>>]

Free == {t \in Tasks : tasks[t].kind = "none"}
FirstFree == CHOOSE t \in Free : \A u \in Free : t <= u

\* function setBusy(state, name = null)
setBusy(state, name) ==
  /\ busy' = state
  /\ currentTask' = IF state THEN name ELSE Null

\* the state once the module is loaded, MC_OWNER being owner (or not set)
Loaded(owner) ==
  /\ spawned = FALSE
  /\ OWNER_USERNAME = owner
  /\ running = TRUE
  /\ busy = FALSE
  /\ currentTask = Null
  /\ loopTimer = FALSE
  /\ botIsOp = TRUE
  /\ pos = PA
  /\ goal = NoGoal
  /\ listeners = <<>>
  /\ tasks = [t \in Tasks |-> NoTask]
  /\ runq = <<>>
  /\ directed = [setopOff |-> FALSE, commandsOff |-> FALSE]
  /\ ev = NoEv

\* the default deployment: MC_OWNER is not set
Init == Loaded(Null)
\* any deployment: MC_OWNER names a trusted owner or is not set
InitAuth == \E owner \in {Null, "owner"} : Loaded(owner)

(*------------------------------ helpers ---------------------------------*)
EndTask(t) == [tasks EXCEPT ![t] = NoTask]
SetTask(t, pc, frames) == [tasks EXCEPT ![t].pc = pc, ![t].frames = frames]
\* the invocation leaves the run queue: it has finished or awaits the outside
Yield == runq' = Tail(runq)
Quiet == spawned /\ runq = <<>>

(*--------------------------- the planner loop ----------------------------*)
\* plannerTick up to its first await: if (!running || busy) return, else
\* requestPlanFromLLM is awaited.  run is the value of running at the call.
plannerTick(run) ==
  IF ~run \/ busy
  THEN /\ tasks' = tasks
       /\ ev' = [NoEv EXCEPT !.op = "tick", !.note = "dropped"]
  ELSE /\ Free # {}
       /\ tasks' = [tasks EXCEPT ![FirstFree] =
                      [NoTask EXCEPT !.kind = "tick", !.pc = "llm"]]
       /\ ev' = [NoEv EXCEPT !.op = "tick", !.note = "request", !.t = FirstFree]

\* function startLoop()
startLoop ==
  IF loopTimer
  THEN UNCHANGED <<running, loopTimer, tasks>> /\ ev' = NoEv
  ELSE /\ running' = TRUE
       /\ plannerTick(TRUE)
       /\ loopTimer' = TRUE

\* function stopLoop()
stopLoop ==
  /\ running' = FALSE
  /\ loopTimer' = FALSE

\* bot.once('spawn', ...)
Spawn ==
  /\ ~spawned
  /\ spawned' = TRUE
  /\ startLoop
  /\ UNCHANGED <<OWNER_USERNAME, busy, currentTask, botIsOp, pos, goal, listeners,
                 runq, directed>>

\* the callback of setInterval(..., interval) set in startLoop
TimerFire ==
  /\ Quiet
  /\ loopTimer
  /\ plannerTick(running)
  /\ UNCHANGED <<spawned, OWNER_USERNAME, running, busy, currentTask, loopTimer,
                 botIsOp, pos, goal, listeners, runq, directed>>

\* wanderSlightly: a goal 3..8 blocks away along x and along z, same y
WanderTargets(p) == {q \in World : q[1] # p[1] /\ q[2] = p[2] /\ q[3] # p[3]}

\* plannerTick after requestPlanFromLLM has returned: executePlan is entered
\* when the plan has steps (run), and otherwise the bot wanders, where
\* bot.pathfinder.setGoal may throw; either way the tick is over.  e holds
\* what the step has seen of the reply.
PlanArrived(t, run, steps, e) ==
  /\ Quiet
  /\ tasks[t].kind = "tick" /\ tasks[t].pc = "llm"
  /\ IF run
     THEN /\ tasks' = [tasks EXCEPT ![t].pc = "loop", ![t].frames = <<steps>>,
                                    ![t].startPos = pos]
          /\ runq' = <<t>>
          /\ goal' = goal
          /\ ev' = [e EXCEPT !.op = "executePlan", !.t = t, !.src = "plan"]
     ELSE /\ tasks' = EndTask(t)
          /\ runq' = runq
          /\ \/ /\ \E tgt \in WanderTargets(pos) : goal' = tgt
                /\ ev' = [e EXCEPT !.op = "wander", !.t = t]
             \/ /\ goal' = goal
                /\ ev' = [e EXCEPT !.op = "wander", !.t = t, !.note = "throw"]
  /\ UNCHANGED <<spawned, OWNER_USERNAME, running, busy, currentTask, loopTimer,
                 botIsOp, pos, listeners, directed>>

\* the reply of the model as the steps parsePlanFromReply returns for it
PlanReply(t, steps) == PlanArrived(t, steps # <<>>, steps, NoEv)

\* HasSteps without the test of the length
HasPlan(plan) == plan.found
\* plan && Array.isArray(plan.steps) && plan.steps.length
HasSteps(plan) == plan.found /\ plan.items # <<>>

\* requestPlanFromLLM from the return of sendChatCompletion on, and the rest
\* of plannerTick: no reply (got = FALSE) gives null; a reply is sent to the
\* chat sanitized, when that is not empty, and parsed; an exception of the
\* parser is caught and gives null
PlanTextReply(t, got, text) ==
  LET parsed == IF got THEN parsePlanFromReply(text) ELSE NoResult
      plan == IF parsed.raised THEN NoResult ELSE parsed
      e == [NoEv EXCEPT !.text = IF got THEN text ELSE <<>>,
                        !.chat = IF got THEN sanitizeLLMReplyForChat(text) ELSE <<>>,
                        !.result = IF ~got THEN "noReply"
                                   ELSE IF parsed.raised THEN "raised" ELSE "reply"]
  IN  PlanArrived(t, HasSteps(plan), plan.items, e)

(*---------------------------- the chat handler ----------------------------*)
\* IsOwner with the comparison against the sender left out
IsOwnerAnyone(user) == OWNER_USERNAME # Null
IsOwner(user) == OWNER_USERNAME # Null /\ user = OWNER_USERNAME
IsDirective(m) ==
  m.verb = "setop" \/ m.verb = "enablecommands" \/ m.verb = "disablecommands"

\* if (username === bot.username) return
ChatSelf(user, m) ==
  /\ Quiet
  /\ user = BotUsername
  /\ ev' = [NoEv EXCEPT !.op = "chat", !.user = user, !.note = "self"]
  /\ UNCHANGED <<spawned, OWNER_USERNAME, running, busy, currentTask, loopTimer,
                 botIsOp, pos, goal, listeners, tasks, runq, directed>>

\* the owner's setop / enablecommands / disablecommands
ChatDirective(user, m) ==
  /\ Quiet
  /\ user # BotUsername
  /\ IsOwner(user)
  /\ IsDirective(m)
  /\ botIsOp' = IF m.verb = "setop" THEN m.arg \in {"on", "true", "1"}
                ELSE m.verb = "enablecommands"
  /\ directed' = IF m.verb = "setop"
                 THEN [directed EXCEPT !.setopOff = ~botIsOp']
                 ELSE [directed EXCEPT !.commandsOff = ~botIsOp']
  /\ ev' = [NoEv EXCEPT !.op = "directive", !.user = user, !.note = m.verb,
                        !.notice = TRUE]
  /\ UNCHANGED <<spawned, OWNER_USERNAME, running, busy, currentTask, loopTimer,
                 pos, goal, listeners, tasks, runq>>

\* the checks after the owner block with the test of line 439 left out
PastOwnerBlockNoSelf(user, m) ==
  ~(IsOwner(user) /\ IsDirective(m))
\* a message that reaches the checks after the owner block
PastOwnerBlock(user, m) ==
  /\ user # BotUsername
  /\ ~(IsOwner(user) /\ IsDirective(m))

\* if (msg === 'start') { startLoop(); bot.chat('Starte.'); return }
ChatStart(user, m) ==
  /\ Quiet
  /\ PastOwnerBlock(user, m)
  /\ m.verb = "start"
  /\ startLoop
  /\ UNCHANGED <<spawned, OWNER_USERNAME, busy, currentTask, botIsOp, pos, goal,
                 listeners, runq, directed>>

\* if (msg === 'stop') { stopLoop(); bot.chat('Stoppe.'); return }
ChatStop(user, m) ==
  /\ Quiet
  /\ PastOwnerBlock(user, m)
  /\ m.verb = "stop"
  /\ stopLoop
  /\ ev' = [NoEv EXCEPT !.op = "chat", !.user = user, !.note = "stop", !.notice = TRUE]
  /\ UNCHANGED <<spawned, OWNER_USERNAME, busy, currentTask, botIsOp, pos, goal,
                 listeners, tasks, runq, directed>>

\* if (msg === 'status') { bot.chat(...); return }
ChatStatus(user, m) ==
  /\ Quiet
  /\ PastOwnerBlock(user, m)
  /\ m.verb = "status"
  /\ ev' = [NoEv EXCEPT !.op = "chat", !.user = user, !.note = "status", !.notice = TRUE]
  /\ UNCHANGED <<spawned, OWNER_USERNAME, running, busy, currentTask, loopTimer,
                 botIsOp, pos, goal, listeners, tasks, runq, directed>>

\* the duel family: 'duel', '<duel|fight|challenge|battle> <target>' (also
\* '... me'), and 'stopduel', 'endduel', 'forfeit'
IsDuel(m) ==
  \/ m.verb = "duel"
  \/ m.verb \in {"challenge", "fight", "battle"} /\ m.arg # ""
  \/ m.verb \in {"stopduel", "endduel", "forfeit"} /\ m.arg = ""

\* await startDuelWith(...) / await stopDuel(): index.js defines neither
\* function, so the call throws a ReferenceError; the call stands outside the
\* try block of the handler and the async listener ends rejected
ChatDuel(user, m) ==
  /\ Quiet
  /\ PastOwnerBlock(user, m)
  /\ IsDuel(m)
  /\ ev' = [NoEv EXCEPT !.op = "chat", !.user = user, !.note = m.verb,
                        !.result = "uncaught"]
  /\ UNCHANGED <<spawned, OWNER_USERNAME, running, busy, currentTask, loopTimer,
                 botIsOp, pos, goal, listeners, tasks, runq, directed>>

\* function parseChatCommandToActions(text, username)
parseChatCommandToActions(m) ==
  IF m.verb \in {"inspect", "goto", "dig", "mine"} /\ m.xyz # <<>>
  THEN <<Step(ToLower(m.verb), XYZ(m.xyz), FALSE)>>
  ELSE IF m.verb \in {"command", "cmd"} /\ m.text.segs # <<>>
  THEN <<Step("command", [command |-> m.text], FALSE)>>
  ELSE <<>>

\* the handler past the start/stop/status/duel checks: the actions of a chat
\* command are run in a loop, any other message goes to gptPlanAndExecute,
\* which asks the model when the message itself holds no actions
ChatPipeline(user, m) ==
  /\ Quiet
  /\ PastOwnerBlock(user, m)
  /\ m.verb \notin {"start", "stop", "status"}
  /\ ~IsDuel(m)
  /\ Free # {}
  /\ LET acts == parseChatCommandToActions(m)
         t == FirstFree
     IN  IF acts # <<>>
         THEN /\ tasks' = [tasks EXCEPT ![t] =
                             [NoTask EXCEPT !.kind = "chat", !.pc = "loop",
                                            !.frames = <<acts>>]]
              /\ runq' = <<t>>
              /\ ev' = [NoEv EXCEPT !.op = "chat", !.user = user, !.t = t,
                                    !.note = m.verb, !.result = "actions"]
         ELSE /\ tasks' = [tasks EXCEPT ![t] =
                             [NoTask EXCEPT !.kind = "chat", !.pc = "llm"]]
              /\ runq' = runq
              /\ ev' = [NoEv EXCEPT !.op = "chat", !.user = user, !.t = t,
                                    !.note = m.verb, !.result = "request"]
  /\ UNCHANGED <<spawned, OWNER_USERNAME, running, busy, currentTask, loopTimer,
                 botIsOp, pos, goal, listeners, directed>>

\* gptPlanAndExecute after sendChatCompletion has returned (or failed): no
\* actions ends the request, otherwise the actions are run in a loop
ActionsArrived(t, acts, e) ==
  /\ Quiet
  /\ tasks[t].kind = "chat" /\ tasks[t].pc = "llm"
  /\ IF acts # <<>>
     THEN /\ tasks' = SetTask(t, "loop", <<acts>>)
          /\ runq' = <<t>>
     ELSE /\ tasks' = EndTask(t)
          /\ runq' = runq
  /\ ev' = [e EXCEPT !.op = "actions", !.t = t, !.src = "chat"]
  /\ UNCHANGED <<spawned, OWNER_USERNAME, running, busy, currentTask, loopTimer,
                 botIsOp, pos, goal, listeners, directed>>

\* the reply of the model as the actions gptPlanAndExecute extracts from it
ActionsReply(t, acts) ==
  /\ acts \in ActionReplies
  /\ ActionsArrived(t, acts, NoEv)

(*--------------------------- micro primitives -----------------------------*)
Top(frames) == frames[Len(frames)]
MicroEv(t, s, src, res, after) ==
  [NoEv EXCEPT !.op = "micro", !.t = t, !.src = src, !.step = s,
               !.result = res]

\* where an exception thrown by executeMicroAction goes: executePlan has no
\* try around the call, so it leaves executePlan and is caught in plannerTick;
\* the loops of the chat handler and of gptPlanAndExecute catch it and go on
Thrown(t, src, after) ==
  IF src = "plan" THEN EndTask(t) ELSE SetTask(t, "sleep", after)

\* async function executeMicroAction(action), up to its first await.  after
\* is the caller's loop state once this step is consumed.  bot.blockAt and
\* bot.pathfinder.setGoal belong to the collaborator and may throw.
executeMicroAction(t, s, src, after) ==
  LET name == ToLower(s.name)
      p == s.params
      returns(res) == /\ tasks' = SetTask(t, "sleep", after)
                      /\ ev' = MicroEv(t, s, src, res, after)
                      /\ UNCHANGED <<goal, listeners>>
      throws == /\ tasks' = Thrown(t, src, after)
                /\ ev' = MicroEv(t, s, src, "throw", after)
                /\ UNCHANGED <<goal, listeners>>
      gotoNear(pc) == /\ goal' = Target(p)
                      /\ listeners' = Append(listeners, t)
                      /\ tasks' = [tasks EXCEPT ![t].pc = pc, ![t].frames = after,
                                                     ![t].want = Target(p)]
                      /\ ev' = MicroEv(t, s, src, "pending", after)
  IN  /\ Yield
      /\ IF ~HasCoords(p) THEN returns("false")
         ELSE IF name \in {"goto", "goto_coords", "move"}
         THEN gotoNear("goto") \/ throws
         ELSE IF name = "inspect"
         THEN returns("true") \/ returns("false") \/ throws
         ELSE IF name \in {"dig", "mine"}
         THEN returns("false") \/ gotoNear("digGoto") \/ throws
         ELSE returns("false")

(*----------------------------- plan execution -----------------------------*)
\* validate with the distance taken from the position at the start of the plan
validateAtPlanStart(t, s) ==
  IF s.name = "" THEN "no name"
  ELSE IF ~HasCoords(s.params) THEN "missing coordinates"
  ELSE IF Dist2(tasks[t].startPos, Target(s.params)) > Sq(MaxDist) THEN "out of range"
  ELSE IF ToLower(s.name) \notin {"inspect", "goto", "dig", "mine"}
  THEN "unsupported step type"
  ELSE "ok"

\* validate with the coordinates required of the primitives only
validateCoordsOfPrimitives(t, s) ==
  IF s.name = "" THEN "no name"
  ELSE IF ToLower(s.name) \in {"inspect", "goto", "dig", "mine"} /\ ~HasCoords(s.params)
  THEN "missing coordinates"
  ELSE IF ~HasCoords(s.params) THEN "unsupported step type"
  ELSE IF Dist2(pos, Target(s.params)) > Sq(MaxDist) THEN "out of range"
  ELSE IF ToLower(s.name) \notin {"inspect", "goto", "dig", "mine"}
  THEN "unsupported step type"
  ELSE "ok"

\* validate with the step type checked before the coordinates
validateNameFirst(t, s) ==
  IF s.name = "" THEN "no name"
  ELSE IF ToLower(s.name) \notin {"inspect", "goto", "dig", "mine"}
  THEN "unsupported step type"
  ELSE IF ~HasCoords(s.params) THEN "missing coordinates"
  ELSE IF Dist2(pos, Target(s.params)) > Sq(MaxDist) THEN "out of range"
  ELSE "ok"

\* the checks executePlan makes on a step, in the order of the code
\* (t is the invocation; bot.entity.position is read when the step is checked)
validate(t, s) ==
  IF s.name = "" THEN "no name"
  ELSE IF ~HasCoords(s.params) THEN "missing coordinates"
  ELSE IF Dist2(pos, Target(s.params)) > Sq(MaxDist) THEN "out of range"
  ELSE IF ToLower(s.name) \notin {"inspect", "goto", "dig", "mine"}
  THEN "unsupported step type"
  ELSE "ok"

\* Continue with return in the place of continue: the loop ends
ContinueAsReturn(t, rest) == SetTask(t, "loop", <<>>)

\* Continue that leaves the rejected step in front of the loop
ContinueRepeat(t, rest) == SetTask(t, "loop", tasks[t].frames)

\* the continue statements of executePlan: the loop goes on with the rest
Continue(t, rest) == SetTask(t, "loop", <<rest>>)

\* one iteration of for (const s of steps) in executePlan, or its return
ExecutePlanStep(t) ==
  /\ spawned /\ runq # <<>> /\ Head(runq) = t
  /\ tasks[t].kind = "tick" /\ tasks[t].pc = "loop"
  /\ LET todo == tasks[t].frames[1]
     IN  IF todo = <<>>
         THEN /\ tasks' = EndTask(t)
              /\ Yield
              /\ ev' = [NoEv EXCEPT !.op = "planDone", !.t = t, !.src = "plan",
                                    !.result = "true"]
              /\ UNCHANGED <<goal, listeners>>
         ELSE LET s == Head(todo)
                  rest == Tail(todo)
                  v == validate(t, s)
              IN  IF v # "ok"
                  THEN /\ tasks' = Continue(t, rest)
                       /\ runq' = runq
                       /\ ev' = [NoEv EXCEPT !.op = "skip", !.t = t, !.src = "plan",
                                             !.step = s, !.note = v, !.notice = (v # "no name")]
                       /\ UNCHANGED <<goal, listeners>>
                  ELSE executeMicroAction(
                         t, Step(ToLower(s.name), s.params, s.rationale), "plan", <<rest>>)
  /\ UNCHANGED <<spawned, OWNER_USERNAME, running, busy, currentTask, loopTimer,
                 botIsOp, pos, directed>>

(*--------------------------- action dispatcher ----------------------------*)
\* commandAllowed with the ALLOW_COMMANDS half of the condition left out
commandAllowedOpOnly == botIsOp

\* tryExecuteCommand: if (!ALLOW_COMMANDS && !botIsOp) refuse
commandAllowed == ~(~ALLOW_COMMANDS /\ ~botIsOp)

\* function parseCommandLineFromReply(text), for the text after the "//":
\* a segment that is no name(...) call becomes an action of that name; an
\* entry k=v gives params[k] (a number when v is numeric, the text v
\* otherwise), an entry without "=" gives params[entry] = true
paramsOf(args) ==
  LET keys == {args[i][1] : i \in DOMAIN args}
      last(k) == CHOOSE i \in DOMAIN args :
                   /\ args[i][1] = k
                   /\ \A j \in DOMAIN args : args[j][1] = k => j <= i
      value(e) == IF Len(e) = 1 THEN "true"
                  ELSE IF IsNumeric(e[2]) THEN NumberOf[e[2]]
                  ELSE IF e[2] \in DOMAIN PayloadOf THEN PayloadOf[e[2]]
                  ELSE e[2]
  IN  [k \in keys |-> value(args[last(k)])]

parseCommandLineFromReply(segs) ==
  [i \in DOMAIN segs |->
     IF segs[i].call
     THEN Step(segs[i].name, paramsOf(segs[i].args), FALSE)
     ELSE Step(segs[i].name, NoParams, FALSE)]

\* async function executeAction(username, action), up to its first await, for
\* the head of the loop that runs it; and the end of such a loop
ExecuteActionStep(t) ==
  /\ spawned /\ runq # <<>> /\ Head(runq) = t
  /\ tasks[t].kind = "chat" /\ tasks[t].pc = "loop"
  /\ LET frames == tasks[t].frames
         depth == Len(frames)
         todo == Top(frames)
     IN  IF todo = <<>>
         THEN /\ Yield
              /\ IF depth = 1
                 THEN tasks' = EndTask(t)
                 ELSE tasks' = SetTask(t, "sleep", SubSeq(frames, 1, depth - 1))
              /\ ev' = [NoEv EXCEPT !.op = "loopDone", !.t = t, !.src = "chat",
                                    !.result = "true"]
              /\ UNCHANGED <<goal, listeners>>
         ELSE LET a == Head(todo)
                  after == [frames EXCEPT ![depth] = Tail(todo)]
                  name == ToLower(a.name)
                  p == a.params
                  done(op, res, note) ==
                    /\ Yield
                    /\ tasks' = SetTask(t, "sleep", after)
                    /\ ev' = [NoEv EXCEPT !.op = op, !.t = t, !.src = "chat", !.step = a, !.result = res, !.notice = note]
                    /\ UNCHANGED <<goal, listeners>>
              IN  IF a.name = "" THEN done("noAction", "false", FALSE)
                  ELSE IF name \in {"command", "runcommand"}
                  THEN LET cmd == IF "command" \in DOMAIN p THEN p.command
                                  ELSE IF "cmd" \in DOMAIN p THEN p.cmd ELSE NoText
                           cev(fwd, res, refused) ==
                             [NoEv EXCEPT !.op = "command", !.t = t, !.src = "chat",
                                          !.step = a, !.notice = TRUE,
                                          !.fwd = fwd, !.refused = refused,
                                          !.result = res]
                           fallback == parseCommandLineFromReply(cmd.segs)
                           failed(fwd, refused) ==
                             /\ ev' = cev(fwd, "false", refused)
                             /\ IF fallback # <<>>
                                THEN /\ tasks' = SetTask(t, "loop", Append(after, fallback))
                                     /\ runq' = runq
                                ELSE /\ tasks' = SetTask(t, "sleep", after)
                                     /\ Yield
                       IN  IF cmd.segs = <<>> THEN done("noCommand", "false", FALSE)
                           ELSE /\ UNCHANGED <<goal, listeners>>
                                /\ IF ~commandAllowed THEN failed(FALSE, TRUE)
                                   ELSE \/ /\ ev' = cev(TRUE, "true", FALSE)
                                           /\ tasks' = SetTask(t, "sleep", after)
                                           /\ Yield
                                        \/ failed(TRUE, FALSE)
                  ELSE IF name \in {"inspect", "goto", "goto_coords", "move", "dig", "mine"}
                  THEN executeMicroAction(t, Step(name, p, a.rationale), "chat", after)
                  ELSE IF name = "status" THEN done("status", "true", TRUE)
                  ELSE done("unknown", "false", TRUE)
  /\ UNCHANGED <<spawned, OWNER_USERNAME, running, busy, currentTask, loopTimer,
                 botIsOp, pos, directed>>

\* parseJsonActionsFromReply(reply) || parseCommandLineFromReply(reply) || []
\* (an array, also an empty one, is truthy)
extractActions(text) ==
  LET json == parseJsonActionsFromReply(text)
  IN  IF json.raised \/ json.found THEN json
      ELSE [NoResult EXCEPT !.found = TRUE,
                            !.items = parseCommandLineFromReply(directiveLine(text))]

\* gptPlanAndExecute from the return of sendChatCompletion on: no reply
\* returns false; a reply is sent to the chat sanitized, when that is not
\* empty, and its actions are extracted; an exception of the extraction is
\* caught and returns false
ActionsTextReply(t, got, text) ==
  LET found == IF got THEN extractActions(text) ELSE NoResult
      e == [NoEv EXCEPT !.text = IF got THEN text ELSE <<>>,
                        !.chat = IF got THEN sanitizeLLMReplyForChat(text) ELSE <<>>,
                        !.result = IF ~got THEN "noReply"
                                   ELSE IF found.raised THEN "raised" ELSE "reply"]
  IN  ActionsArrived(t, IF found.raised THEN <<>> ELSE found.items, e)

(*------------------------ collaborator and timers -------------------------*)
\* the listeners gotoNear registered run in order: a plain goto returns to
\* its loop, which starts its sleep; a dig goes on to equip and dig
Resolved(t) ==
  IF \E i \in DOMAIN listeners : listeners[i] = t
  THEN [tasks[t] EXCEPT !.pc = IF tasks[t].pc = "digGoto" THEN "digResume" ELSE "sleep",
                        !.want = NoGoal]
  ELSE tasks[t]
IsDigGoto(t) == tasks[t].pc = "digGoto"

\* the pathfinder reaches its goal and emits goal_reached
GoalReached ==
  /\ Quiet
  /\ goal # NoGoal
  /\ pos' = goal
  /\ goal' = NoGoal
  /\ tasks' = [t \in Tasks |-> Resolved(t)]
  /\ runq' = SelectSeq(listeners, IsDigGoto)
  /\ listeners' = <<>>
  /\ ev' = [NoEv EXCEPT !.op = "goal_reached"]
  /\ UNCHANGED <<spawned, OWNER_USERNAME, running, busy, currentTask, loopTimer,
                 botIsOp, directed>>

\* the bot emits cannotFind
CannotFind ==
  /\ Quiet
  /\ listeners # <<>>
  /\ tasks' = [t \in Tasks |-> Resolved(t)]
  /\ runq' = SelectSeq(listeners, IsDigGoto)
  /\ listeners' = <<>>
  /\ ev' = [NoEv EXCEPT !.op = "cannotFind"]
  /\ UNCHANGED <<spawned, OWNER_USERNAME, running, busy, currentTask, loopTimer,
                 botIsOp, pos, goal, directed>>

\* executeMicroAction (dig) after gotoNear: equipPrefer awaits bot.equip when
\* the inventory holds one of the tools
EquipSuspend(t) ==
  /\ spawned /\ runq # <<>> /\ Head(runq) = t
  /\ tasks[t].pc = "digResume"
  /\ tasks' = [tasks EXCEPT ![t].pc = "equip"]
  /\ Yield
  /\ ev' = NoEv
  /\ UNCHANGED <<spawned, OWNER_USERNAME, running, busy, currentTask, loopTimer,
                 botIsOp, pos, goal, listeners, directed>>

\* bot.equip returns or throws
EquipDone(t) ==
  /\ Quiet
  /\ tasks[t].pc = "equip"
  /\ tasks' = [tasks EXCEPT ![t].pc = "safeDig"]
  /\ runq' = <<t>>
  /\ ev' = NoEv
  /\ UNCHANGED <<spawned, OWNER_USERNAME, running, busy, currentTask, loopTimer,
                 botIsOp, pos, goal, listeners, directed>>

\* async function safeDig(block), up to its first await: an air block
\* returns false; otherwise busy is set and stopMovement stops the pathfinder
SafeDigStart(t) ==
  /\ spawned /\ runq # <<>> /\ Head(runq) = t
  /\ tasks[t].pc \in {"digResume", "safeDig"}
  /\ Yield
  /\ \/ /\ tasks' = [tasks EXCEPT ![t].pc = "sleep"]
        /\ ev' = [NoEv EXCEPT !.op = "safeDig", !.t = t, !.result = "false"]
        /\ UNCHANGED <<busy, currentTask, goal>>
     \/ /\ setBusy(TRUE, "dig")
        /\ goal' = NoGoal
        /\ tasks' = [tasks EXCEPT ![t].pc = "digging"]
        /\ ev' = [NoEv EXCEPT !.op = "safeDig", !.t = t, !.result = "pending"]
  /\ UNCHANGED <<spawned, OWNER_USERNAME, running, loopTimer, botIsOp, pos,
                 listeners, directed>>

\* DigDone with the finally block left out: a throw leaves busy as it is
DigDoneNoFinally(t, ok) ==
  /\ Quiet
  /\ tasks[t].pc = "digging"
  /\ IF ok THEN setBusy(FALSE, Null) ELSE UNCHANGED <<busy, currentTask>>
  /\ tasks' = [tasks EXCEPT ![t].pc = "sleep"]
  /\ ev' = [NoEv EXCEPT !.op = "digDone", !.t = t,
                        !.result = IF ok THEN "true" ELSE "false"]
  /\ UNCHANGED <<spawned, OWNER_USERNAME, running, loopTimer, botIsOp, pos, goal,
                 listeners, runq, directed>>

\* safeDig: the awaited calls return (true) or one throws (false); finally
\* setBusy(false); the caller's loop starts its sleep
DigDone(t, ok) ==
  /\ Quiet
  /\ tasks[t].pc = "digging"
  /\ setBusy(FALSE, Null)
  /\ tasks' = [tasks EXCEPT ![t].pc = "sleep"]
  /\ ev' = [NoEv EXCEPT !.op = "digDone", !.t = t,
                        !.result = IF ok THEN "true" ELSE "false"]
  /\ UNCHANGED <<spawned, OWNER_USERNAME, running, loopTimer, botIsOp, pos, goal,
                 listeners, runq, directed>>

\* the timer of await sleep(200) / await sleep(150) after a step fires
Wake(t) ==
  /\ Quiet
  /\ tasks[t].pc = "sleep"
  /\ tasks' = [tasks EXCEPT ![t].pc = "loop"]
  /\ runq' = <<t>>
  /\ ev' = NoEv
  /\ UNCHANGED <<spawned, OWNER_USERNAME, running, busy, currentTask, loopTimer,
                 botIsOp, pos, goal, listeners, directed>>

Collaborator ==
  \/ \E t \in Tasks : ExecutePlanStep(t)
  \/ \E t \in Tasks : ExecuteActionStep(t)
  \/ GoalReached
  \/ CannotFind
  \/ \E t \in Tasks : EquipSuspend(t)
  \/ \E t \in Tasks : EquipDone(t)
  \/ \E t \in Tasks : SafeDigStart(t)
  \/ \E t \in Tasks : \E ok \in BOOLEAN : DigDone(t, ok)
  \/ \E t \in Tasks : Wake(t)

Next ==
  \/ Spawn
  \/ TimerFire
  \/ \E t \in Tasks : \E steps \in PlanReplies : PlanReply(t, steps)
  \/ \E user \in Players : \E m \in Messages : ChatSelf(user, m)
  \/ \E user \in Players : \E m \in Messages : ChatStart(user, m)
  \/ \E user \in Players : \E m \in Messages : ChatStop(user, m)
  \/ \E user \in Players : \E m \in Messages : ChatStatus(user, m)
  \/ \E user \in Players : \E m \in Messages : ChatPipeline(user, m)
  \/ \E t \in Tasks : \E acts \in ActionReplies : ActionsReply(t, acts)
  \/ Collaborator

Spec == Init /\ [][Next]_vars

NextAuth ==
  \/ Spawn
  \/ TimerFire
  \/ \E t \in Tasks : \E steps \in OwnerPlanReplies : PlanReply(t, steps)
  \/ \E user \in Users : \E m \in Messages : ChatSelf(user, m)
  \/ \E user \in Users : \E m \in Messages : ChatDirective(user, m)
  \/ \E user \in Users : \E m \in Messages : ChatStart(user, m)
  \/ \E user \in Users : \E m \in Messages : ChatStop(user, m)
  \/ \E user \in Users : \E m \in Messages : ChatStatus(user, m)
  \/ \E user \in Users : \E m \in Messages : ChatPipeline(user, m)
  \/ \E t \in Tasks : \E acts \in OwnerActionReplies : ActionsReply(t, acts)
  \/ Collaborator

SpecAuth == InitAuth /\ [][NextAuth]_vars

\* the replies of the model as texts: the planner, and the chat handler with
\* a message that goes to the model
TextMessages == {Msg("hello", "", <<>>, NoText)}

NextText ==
  \/ Spawn
  \/ TimerFire
  \/ \E t \in Tasks : \E got \in BOOLEAN : \E text \in PlanTexts : PlanTextReply(t, got, text)
  \/ \E m \in TextMessages : ChatPipeline("alice", m)
  \/ \E t \in Tasks : \E got \in BOOLEAN : \E text \in ActionTexts :
       ActionsTextReply(t, got, text)
  \/ \E t \in Tasks : ExecutePlanStep(t)
  \/ \E t \in Tasks : ExecuteActionStep(t)
  \/ GoalReached
  \/ CannotFind
  \/ \E t \in Tasks : Wake(t)

SpecText == Init /\ [][NextText]_vars

\* the planner alone, the model answering with no plan or with a plan of one
\* step more than the planner asked for
LongPlan == [i \in 1..(PlanCap + 1) |-> IF i \in {1, PlanCap + 1} THEN GotoB ELSE StatusStep]
CapPlanReplies == {<<>>, LongPlan}

NextCap ==
  \/ Spawn
  \/ TimerFire
  \/ \E t \in Tasks : \E steps \in CapPlanReplies : PlanReply(t, steps)
  \/ \E t \in Tasks : ExecutePlanStep(t)
  \/ GoalReached
  \/ CannotFind
  \/ \E t \in Tasks : Wake(t)

SpecCap == Init /\ [][NextCap]_vars

\* the alias names of goto, from the model as plan steps and as actions
MoveB == Step("move", XYZ(PB), FALSE)
GotoCoordsB == Step("goto_coords", XYZ(PB), FALSE)
AliasReplies == {<<>>, <<GotoB>>, <<MoveB>>, <<GotoCoordsB>>, <<MoveB, GotoC>>}

NextAlias ==
  \/ Spawn
  \/ TimerFire
  \/ \E t \in Tasks : \E steps \in AliasReplies : PlanReply(t, steps)
  \/ \E m \in TextMessages : ChatPipeline("alice", m)
  \/ \E t \in Tasks : \E acts \in AliasReplies : ActionsArrived(t, acts, NoEv)
  \/ \E t \in Tasks : ExecutePlanStep(t)
  \/ \E t \in Tasks : ExecuteActionStep(t)
  \/ GoalReached
  \/ CannotFind
  \/ \E t \in Tasks : Wake(t)

SpecAlias == Init /\ [][NextAlias]_vars

\* the planner alone with plans that dig and plans whose steps are rejected;
\* the timer keeps firing, the model and the collaborator answer every call,
\* and a continuation that is ready runs
DigB == Step("dig", XYZ(PB), FALSE)
LivePlanReplies == {<<>>, <<DigB>>, <<GotoB, DigNoYZ>>, <<FlyB, DigB>>}

NextLive ==
  \/ Spawn
  \/ TimerFire
  \/ \E t \in Tasks : \E steps \in LivePlanReplies : PlanReply(t, steps)
  \/ \E t \in Tasks : ExecutePlanStep(t)
  \/ GoalReached
  \/ CannotFind
  \/ \E t \in Tasks : EquipSuspend(t)
  \/ \E t \in Tasks : EquipDone(t)
  \/ \E t \in Tasks : SafeDigStart(t)
  \/ \E t \in Tasks : \E ok \in BOOLEAN : DigDone(t, ok)
  \/ \E t \in Tasks : Wake(t)

FairLive ==
  /\ WF_vars(Spawn)
  /\ SF_vars(TimerFire)
  /\ SF_vars(\E t \in Tasks : \E steps \in LivePlanReplies : PlanReply(t, steps))
  /\ WF_vars(\E t \in Tasks : ExecutePlanStep(t))
  /\ SF_vars(GoalReached \/ CannotFind)
  /\ WF_vars(\E t \in Tasks : EquipSuspend(t))
  /\ SF_vars(\E t \in Tasks : EquipDone(t))
  /\ WF_vars(\E t \in Tasks : SafeDigStart(t))
  /\ SF_vars(\E t \in Tasks : \E ok \in BOOLEAN : DigDone(t, ok))
  /\ SF_vars(\E t \in Tasks : Wake(t))

SpecLive == Init /\ [][NextLive]_vars /\ FairLive

\* the chat handler with the messages of every branch past the owner block
BranchMessages ==
  { Msg("start", "", <<>>, NoText), Msg("stop", "", <<>>, NoText),
    Msg("status", "", <<>>, NoText),
    Msg("duel", "", <<>>, NoText), Msg("duel", "me", <<>>, NoText),
    Msg("fight", "bob", <<>>, NoText), Msg("fight", "", <<>>, NoText),
    Msg("forfeit", "", <<>>, NoText),
    Msg("goto", "", PC, NoText), Msg("hello", "", <<>>, NoText) }
BranchReplies == {<<>>, <<GotoC>>}

NextBranch ==
  \/ Spawn
  \/ TimerFire
  \/ \E t \in Tasks : PlanReply(t, <<>>)
  \/ \E m \in BranchMessages : ChatStart("alice", m)
  \/ \E m \in BranchMessages : ChatStop("alice", m)
  \/ \E m \in BranchMessages : ChatStatus("alice", m)
  \/ \E m \in BranchMessages : ChatDuel("alice", m)
  \/ \E m \in BranchMessages : ChatPipeline("alice", m)
  \/ \E t \in Tasks : \E acts \in BranchReplies : ActionsArrived(t, acts, NoEv)
  \/ \E t \in Tasks : ExecuteActionStep(t)
  \/ GoalReached
  \/ CannotFind
  \/ \E t \in Tasks : Wake(t)

SpecBranch == Init /\ [][NextBranch]_vars

(*================================ claims ==================================*)
PlanPrimitives == {"inspect", "goto", "dig", "mine"}
CompoundSet == {"dropitems", "gotoplayer", "ensureworkbench", "crafttable",
                "craftwoodpickaxe", "woodpick", "craftstonepickaxe", "stonepick",
                "status"}
CommandNames == {"command", "runcommand"}
Rejections == {"missing coordinates", "out of range", "unsupported step type"}

\* executePlan has been entered by invocation t and has not returned
InPlan(t) == tasks[t].kind = "tick" /\ tasks[t].pc # "llm"
\* the last step handled a step of a plan: it rejected or dispatched it
PlanStepHandled == ev.src = "plan" /\ ev.op \in {"skip", "micro"}
InRange(p) == Dist2(pos, Target(p)) <= Sq(MaxDist)

\* C1: at most one plan execution is in progress at any moment.
C1_NoOverlap == Cardinality({t \in Tasks : InPlan(t)}) <= 1

\* C2: executePlan invoked while busy is true returns at once: the
\* invocation that called it is over, with no step handled.
C2_BusyRefuses == (ev.op = "executePlan" /\ busy) => tasks[ev.t].kind = "none"

\* C3: after the dispatch of a plan step has thrown, the execution goes on:
\* it is in its delay before the next step.
C3_ThrowIsolated ==
  (ev.op = "micro" /\ ev.src = "plan" /\ ev.result = "throw")
    => (tasks[ev.t].kind = "tick" /\ tasks[ev.t].pc = "sleep")

\* C4: every primitive with coordinates handed to the collaborator, on the
\* planner path or on the chat path, targets a point within MaxDist of the
\* bot's position at that moment.
C4_AllPrimitivesInRange ==
  (ev.op = "micro" /\ HasCoords(ev.step.params)) => InRange(ev.step.params)

\* C5: a command with a payload is handed to bot.chat exactly when
\* ALLOW_COMMANDS or botIsOp holds; when neither does, the refusal notice is
\* sent and the payload is not.
C5_CommandGate ==
  ev.op = "command" =>
    /\ ev.fwd <=> (ALLOW_COMMANDS \/ botIsOp)
    /\ (~ALLOW_COMMANDS /\ ~botIsOp) => (ev.refused /\ ~ev.fwd)
    /\ ev.refused => ~ev.fwd
\* a command is forwarded although botIsOp is false
C5_Witness == ev.op = "command" /\ ev.fwd /\ ~botIsOp

\* C6: once the owner's directives have turned both the op state and the
\* command switch off, no command is handed to bot.chat.
C6_BothOffRefuses ==
  (directed.setopOff /\ directed.commandsOff /\ ev.op = "command") => ~ev.fwd

\* C7: botIsOp changes only in a step that handles a directive sent by the
\* configured owner.
C7_OnlyOwnerToggles ==
  [][botIsOp' # botIsOp =>
       (ev'.op = "directive" /\ OWNER_USERNAME # Null /\ ev'.user = OWNER_USERNAME)]_vars
\* another player's "setop on" has been handled and botIsOp, which the owner
\* had turned off, is still off
C7_Witness ==
  /\ ev.op = "chat" /\ ev.user = "alice" /\ ev.note = "setop" /\ ev.result = "request"
  /\ ~botIsOp

\* C8: a plan step with coordinates and a primitive name is rejected as out
\* of range exactly when it is farther than MaxDist from the position the bot
\* has when the step is handled, and dispatched otherwise.
C8_DistancePerStep ==
  (PlanStepHandled /\ HasCoords(ev.step.params)
     /\ ToLower(ev.step.name) \in PlanPrimitives) =>
    IF InRange(ev.step.params)
    THEN ev.op = "micro"
    ELSE ev.op = "skip" /\ ev.note = "out of range"
\* a step is dispatched that was out of range where the plan started
C8_Witness ==
  /\ ev.op = "micro" /\ ev.src = "plan" /\ ev.result = "pending"
  /\ Dist2(tasks[ev.t].startPos, Target(ev.step.params)) > Sq(MaxDist)

\* C9: a step that rejects a plan step sends a notice, hands nothing to the
\* collaborator and leaves the execution at the head of the loop with every
\* later step of the plan still to be handled.
C9_RejectionContinues ==
  [][(ev'.op = "skip" /\ ev'.note \in Rejections) =>
       /\ ev'.notice
       /\ tasks'[ev'.t].kind = "tick" /\ tasks'[ev'.t].pc = "loop"
       /\ tasks'[ev'.t].frames = <<Tail(tasks[ev'.t].frames[1])>>
       /\ runq' # <<>> /\ Head(runq') = ev'.t
       /\ UNCHANGED <<goal, listeners, busy, pos>>]_vars
\* a step has been rejected and a later step of the plan is still to come
C9_Witness ==
  /\ ev.op = "skip" /\ ev.note \in Rejections
  /\ tasks[ev.t].frames[1] # <<>>

\* C10 as stated: a plan step is rejected as unsupported exactly when its
\* name is in none of PrimitiveSet, CompoundSet and the command names, and a
\* step with a compound or command name is rejected neither for missing
\* coordinates nor as unsupported.
C10_Original ==
  PlanStepHandled =>
    LET name == ToLower(ev.step.name)
    IN  /\ (ev.op = "skip" /\ ev.note = "unsupported step type")
             <=> name \notin (PlanPrimitives \cup CompoundSet \cup CommandNames)
        /\ name \in (CompoundSet \cup CommandNames) =>
             ~(ev.op = "skip" /\ ev.note \in {"missing coordinates", "unsupported step type"})

\* C10 amended: a plan step is rejected as unsupported exactly when it has
\* numeric coordinates, is within range and its name is none of inspect,
\* goto, dig, mine.
C10_UnsupportedExactly ==
  PlanStepHandled =>
    ((ev.op = "skip" /\ ev.note = "unsupported step type")
       <=> (/\ ev.step.name # ""
            /\ HasCoords(ev.step.params)
            /\ InRange(ev.step.params)
            /\ ToLower(ev.step.name) \notin PlanPrimitives))
\* a step with a compound name has been rejected by the plan's checks
C10_Witness ==
  /\ ev.op = "skip" /\ ev.src = "plan"
  /\ ToLower(ev.step.name) \in CompoundSet
  /\ ev.note \in Rejections

\* C11 as stated: a plan step is rejected for missing coordinates exactly
\* when its name is in PrimitiveSet and x, y, z are not all numbers; a step
\* with another name is never rejected for that reason.
C11_Original ==
  PlanStepHandled =>
    ((ev.op = "skip" /\ ev.note = "missing coordinates")
       <=> (ToLower(ev.step.name) \in PlanPrimitives /\ ~HasCoords(ev.step.params)))

\* C11 amended: a plan step is rejected for missing coordinates exactly when
\* it has a name and x, y, z are not all numbers, whatever the name; no step
\* without the three numbers is dispatched.
C11_MissingCoordsExactly ==
  PlanStepHandled =>
    /\ (ev.op = "skip" /\ ev.note = "missing coordinates")
         <=> (ev.step.name # "" /\ ~HasCoords(ev.step.params))
    /\ ev.op = "micro" => HasCoords(ev.step.params)
\* a primitive without y and z has been rejected for missing coordinates
C11_Witness ==
  /\ ev.op = "skip" /\ ev.src = "plan" /\ ev.note = "missing coordinates"
  /\ ToLower(ev.step.name) \in PlanPrimitives

\* C12: the loops of an invocation nest at most two deep: the loop of the
\* handler and the loop over the actions of one reinterpreted command.
C12_FallbackDepthOne == \A t \in Tasks : Len(tasks[t].frames) <= 2

C14_CapRespected ==
  (PlanStepHandled /\ tasks[ev.t].kind = "tick")
    => Len(LongPlan) - Len(tasks[ev.t].frames[1]) <= PlanCap

\* C17: while busy is true a planner tick is dropped, a chat message starts
\* neither actions nor a model request, and a model reply runs no actions.
C17_BusyDropsRequest ==
  busy =>
    /\ ev.op = "tick" => ev.note = "dropped"
    /\ ev.op = "chat" => ev.result \notin {"actions", "request"}
    /\ ev.op = "actions" => tasks[ev.t].kind = "none"

\* C18: when the reply to a planner tick yields no plan (no reply, a text
\* that holds no plan, or a plan whose steps are an empty list), the tick
\* wanders, enters no plan and is over.
C18_NoPlanWanders ==
  (/\ ev.op \in {"wander", "executePlan"}
   /\ \/ ev.result = "noReply"
      \/ ev.result \in {"reply", "raised"} /\ parsePlanFromReply(ev.text).items = <<>>)
    => /\ ev.op = "wander"
       /\ tasks[ev.t].kind = "none"
       /\ \A i \in DOMAIN runq : runq[i] # ev.t
\* a reply whose fenced plan has an empty list of steps made the tick wander
C18_Witness ==
  /\ ev.op = "wander" /\ ev.result = "reply"
  /\ fencedJson(ev.text, "plan").found
  /\ tasks[ev.t].kind = "none"

\* C19: what the sanitizer hands to the chat is never longer than 240
\* characters: a cleaned text of more than 240 characters gives its first 237
\* characters and the three dots, any other cleaned text is handed on as it
\* is, and an empty reply gives the empty text.
C19_SanitizerBound ==
  (ev.op \in {"wander", "executePlan", "actions"} /\ ev.result \in {"reply", "raised"})
    => LET c == cleaned(ev.text)
       IN  /\ Length(ev.chat) <= ChatLimit
           /\ Length(c) > ChatLimit =>
                /\ Length(ev.chat) = ChatKeep + 3
                /\ ev.chat = Take(c, ChatKeep) \o <<Tok(".", 3)>>
           /\ Length(c) <= ChatLimit => ev.chat = c
           /\ ev.text = <<>> => ev.chat = <<>>
\* a reply whose cleaned text is longer than the limit was cut
C19_Witness ==
  /\ ev.op \in {"wander", "actions"} /\ ev.result = "reply"
  /\ Length(cleaned(ev.text)) > ChatLimit
  /\ ev.chat # <<>> /\ ev.chat[Len(ev.chat)] = Tok(".", 3)

\* C20: on every reply text (empty, JSON cut short, braces that do not
\* balance or are nested, JSON that is not an object) no extraction strategy
\* raises, a strategy that finds nothing of the schema yields no items, and
\* when none finds anything nothing is run.
C20_ExtractionNeverRaises ==
  (ev.op \in {"wander", "executePlan", "actions"} /\ ev.result \in {"reply", "raised"})
    => LET key == IF ev.op = "actions" THEN "actions" ELSE "plan"
           f == fencedJson(ev.text, key)
           i == inlineJson(ev.text, key)
           line == IF key = "actions" THEN parseCommandLineFromReply(directiveLine(ev.text))
                   ELSE <<>>
       IN  /\ ev.result = "reply"
           /\ ~f.raised /\ ~i.raised
           /\ ~f.found => f.items = <<>>
           /\ ~i.found => i.items = <<>>
           /\ (~f.found /\ ~i.found /\ line = <<>>) => tasks[ev.t].kind = "none"
\* a reply whose fenced block is JSON cut short was handled: no plan, the
\* tick wandered
C20_Witness ==
  /\ ev.op = "wander" /\ ev.result = "reply"
  /\ ev.text = Fenced(Cut(JsonOf("plan", "[B]")))
  /\ ~JSONparse(Cut(JsonOf("plan", "[B]"))).ok

\* C16: a reply to a chat request that holds no JSON actions but holds
\* "Action: <name> ... Params: {...}" yields the action of that name and
\* params, and the action is dispatched.
C16_LooseFallback ==
  (/\ ev.op = "actions" /\ ev.result = "reply"
   /\ ~parseJsonActionsFromReply(ev.text).found
   /\ extractActionsLoose(ev.text) # <<>>)
    => /\ tasks[ev.t].kind = "chat"
       /\ tasks[ev.t].frames = <<extractActionsLoose(ev.text)>>

\* C15: the actions run for a reply are those of the first strategy, in the
\* order fenced JSON, inline JSON, directive line, that yields a list that is
\* not empty; a strategy that yields nothing or an empty list hands over to
\* the next one.
C15_FirstNonEmptyWins ==
  (ev.op = "actions" /\ ev.result = "reply")
    => LET f == fencedJson(ev.text, "actions").items
           i == inlineJson(ev.text, "actions").items
           d == parseCommandLineFromReply(directiveLine(ev.text))
           first == IF f # <<>> THEN f ELSE IF i # <<>> THEN i ELSE d
       IN  IF first = <<>> THEN tasks[ev.t].kind = "none"
           ELSE tasks[ev.t].kind = "chat" /\ tasks[ev.t].frames = <<first>>

\* C21: from the start of a plan execution until its last step has been
\* attempted busy is true and currentTask holds a label.
C21_BusyWhilePlanRuns ==
  \A t \in Tasks : InPlan(t) => (busy /\ currentTask # Null)

\* C22: a step named goto_coords or move, with coordinates within range, is
\* dispatched to the collaborator as a goto is, in a plan as well as from the
\* action dispatcher.
C22_AliasesAreGoto ==
  (/\ ev.op \in {"skip", "micro"}
   /\ ToLower(ev.step.name) \in {"goto_coords", "move"}
   /\ HasCoords(ev.step.params) /\ InRange(ev.step.params))
    => (ev.op = "micro" /\ ev.result \in {"pending", "throw"})

\* C23: the bare numbers of a call in the directive line of a reply become x,
\* y and z in their order: "//goto(8,0,8)" gives the action that
\* "//goto(x=8,y=0,z=8)" gives.
C23_BareNumbersPositional ==
  (ev.op = "actions" /\ ev.result = "reply" /\ ev.text = <<T(Space)>> \o PositionalText)
    => /\ tasks[ev.t].kind = "chat"
       /\ tasks[ev.t].frames = <<extractActions(DirectiveText).items>>
       /\ tasks[ev.t].frames = << <<Step("goto", XYZ(PC), FALSE)>> >>

\* C24: while the loop is stopped no planner tick issues a request to the
\* model and none enters a plan.
C24_StoppedStartsNothing ==
  ~running =>
    /\ ~(ev.op = "tick" /\ ev.note = "request")
    /\ ev.op # "executePlan"

\* C25: while the loop runs and every call to the model and the collaborator
\* returns, planner ticks that issue a request to the model occur again and
\* again, and busy is false again and again, whatever steps were rejected
\* and whatever dispatch failed.
C25_TicksKeepComing ==
  /\ []<>(ev.op = "tick" /\ ev.note = "request")
  /\ []<>(~busy)
\* a dig of a plan has failed, busy is released and the loop is still on
C25_Witness ==
  /\ ev.op = "digDone" /\ ev.result = "false"
  /\ tasks[ev.t].kind = "tick"
  /\ ~busy /\ running /\ loopTimer

\* C26: the text of a model reply that is sent to the chat for display,
\* sanitized, never begins with '/'.
C26_DisplayNeverSlash ==
  ev.chat # <<>> => ~StartsWith(ev.chat, "/")

\* C27: no chat message makes the handler end with a failure that nothing
\* catches.
C27_HandlerNeverFails ==
  ev.op = "chat" => ev.result # "uncaught"

\* C28: a planner tick sets the goal of a wander, and dispatches a step of
\* its plan, only while busy is false.
C28_TickActsOnlyIdle ==
  (ev.op = "wander" \/ (ev.op = "micro" /\ ev.src = "plan")) => ~busy

\* C29: busy is true whenever a dig is in progress, also when digs overlap,
\* and currentTask holds a label exactly when busy is true.
C29_BusyCoversEveryDig ==
  /\ (\E t \in Tasks : tasks[t].pc = "digging") => busy
  /\ busy <=> currentTask # Null

\* C30: a goal_reached event resolves only requests that had set the goal
\* the bot has reached.
C30_ResolvedByOwnGoal ==
  [][ev'.op = "goal_reached" =>
       \A i \in DOMAIN listeners : tasks[listeners[i]].want = pos']_vars

\* C31: a chat event whose sender is the bot itself changes nothing: the
\* loop, busy, the task label, the privilege flag, the goal, the waiting
\* requests and every invocation stay as they are, no request to the model
\* is started and no action is dispatched.
C31_OwnChatIgnored ==
  [][ev'.user = BotUsername =>
       /\ ev'.op = "chat" /\ ev'.note = "self"
       /\ UNCHANGED <<spawned, OWNER_USERNAME, running, busy, currentTask,
                      loopTimer, botIsOp, pos, goal, listeners, tasks, runq,
                      directed>>]_vars
\* the bot's own message has arrived while the loop is on and an invocation
\* is under way
C31_Witness ==
  /\ ev.op = "chat" /\ ev.user = BotUsername
  /\ running
  /\ \E t \in Tasks : tasks[t].kind # "none"
====
